---- MODULE Spec2Model ----
(***************************************************************************)
(* Verification model of notebooks/coverage.py: per-cluster fragment       *)
(* coverage (get_coverages with the expand_interval CUDA kernel), the      *)
(* fragment counter (count_fragments), the tabix reader (tabix_query) and  *)
(* the interval reshaping around the denoising network                     *)
(* (reshape_with_padding, atacworks_denoise).                              *)
(*                                                                         *)
(* Arrays are functions on 0..n-1, as the code indexes them.  Each         *)
(* function of the program has its own specification (SpecCoverage, ...);  *)
(* the variables of the other functions stay at their idle values.         *)
(***************************************************************************)
EXTENDS Integers, Sequences, FiniteSets, TLC

VARIABLES
    pc,                 \* position of the running function
    \* ---- get_coverages
    reads_orig,         \* argument: row_num -> fragment row (rows in any order)
    start, end, pad,    \* arguments: the window and its padding
    reads,              \* line 83: the rows sorted by row_num, 0-based
    clusters,           \* line 86: sorted distinct clusters, 0-based
    window_size,        \* line 90
    expanded_coverage,  \* lines 94-97: the three device arrays of the kernel
    oob,                \* the kernel wrote past the end of its output arrays
    summed_coverage,    \* line 111: the groups and their counts
    x,                  \* line 114: the result array
    i,                  \* line 117: loop index over clusters
    writes,             \* history: every element assignment of line 124
    \* ---- tabix_query
    tabix_out,          \* the lines the tabix process writes to its stdout
    line_no,            \* lines of process.stdout consumed by the loop
    records,            \* line 46: the list being built
    \* ---- count_fragments
    fragment_file,      \* the lines of the (decompressed) fragment file
    fragment_barcodes,  \* line 27: the column read_csv returns
    barcode_counts,     \* lines 28-29: the dataframe returned
    \* ---- atacworks_denoise
    coverage,           \* argument: the coverage array, clusters x positions
    interval_size,      \* argument
    dpad,               \* argument pad of atacworks_denoise
    input_arr,          \* line 152: the reshaped intervals
    pred                \* lines 157-161: the prediction, as it is transformed

covVars == <<reads_orig, start, end, pad, reads, clusters, window_size,
             expanded_coverage, oob, summed_coverage, x, i, writes>>

tabVars == <<tabix_out, line_no, records>>

cntVars == <<fragment_file, fragment_barcodes, barcode_counts>>

dnVars == <<coverage, interval_size, dpad, input_arr, pred>>

vars == <<pc, covVars, tabVars, cntVars, dnVars>>

\* ------------------------------------------------------------------ bounds
\* Fragment coordinates lie in 0..MaxCoord; a dataframe has at most MaxRows rows.
MaxCoord == 3
MaxRows == 2

\* The cluster labels, and the windows get_coverages is called with: start,
\* end - start and pad.  A window starting at 0 or reaching below 0 with its
\* padding holds coordinate 0; one starting at 1 without padding does not.
ClusterIds == {1, 2}
Starts == {0, 1}
Widths == {0, 1, 2}
Pads == {0, 1}

\* ------------------------------------------------------------ generic helpers
Range0(n) == 0 .. (n - 1)

Zeros(n) == [j \in Range0(n) |-> 0]

\* Number of elements of S strictly below v: the rank of v in sorted(S).
Rank(v, S) == Cardinality({u \in S : u < v})

\* sorted(S) as a 0-based array.
Sorted(S) == [k \in Range0(Cardinality(S)) |-> CHOOSE v \in S : Rank(v, S) = k]

\* ----------------------------------------------------------- read_fragments
\* A fragment row as read_fragments builds it: len = end - start (line 75).
ReadRow(r, s, e, c) ==
    [row_num |-> r, start |-> s, end |-> e, cluster |-> c, len |-> e - s]

\* Fragments are non-empty half-open intervals.
ReadData ==
    {<<s, e, c>> : s \in 0 .. MaxCoord, e \in 0 .. MaxCoord, c \in ClusterIds}

ValidReadData == {d \in ReadData : d[1] < d[2]}

\* Dataframes with unique row_num: any subset of the row numbers is present
\* (rows are lost when the fragments are joined with the cluster table).
ReadFrames ==
    UNION {[R -> ValidReadData] : R \in SUBSET Range0(MaxRows)}

\* ------------------------------------------------------------ get_coverages
\* line 83: sort_values(by='row_num').reset_index(drop=True)
SortByRowNum(frame) ==
    LET rs == Sorted(DOMAIN frame)
    IN [k \in DOMAIN rs |->
           ReadRow(rs[k], frame[rs[k]][1], frame[rs[k]][2], frame[rs[k]][3])]

\* line 86: sorted(np.unique(reads['cluster']))
UniqueClusters(rd) == Sorted({rd[k].cluster : k \in DOMAIN rd})

\* line 90
WindowSize(s, e, p) == e - s + 2 * p

\* line 102: reads['len'].cumsum(), entry k
RECURSIVE CumSum(_, _)
CumSum(rd, k) == IF k < 0 THEN 0 ELSE rd[k].len + CumSum(rd, k - 1)

\* line 106: the step argument of the kernel
Step == 1

\* expand_interval, line 58
FirstIndex(rd, k) == CumSum(rd, k) - (rd[k].end - rd[k].start)

\* expand_interval, line 60: range(first_index, end_index[i], step) as the
\* iteration numbers n, iteration n writing index first_index + n*step
Iterations(rd, k) ==
    {n \in 0 .. rd[k].len : FirstIndex(rd, k) + n * Step < CumSum(rd, k)}

IndexOf(rd, k, n) == FirstIndex(rd, k) + n * Step

\* The indices thread k writes, those all threads write, and whether index j
\* exists in an array of size n.
ThreadIndices(rd, k) == {IndexOf(rd, k, n) : n \in Iterations(rd, k)}

AllIndices(rd) == UNION {ThreadIndices(rd, k) : k \in DOMAIN rd}

InBounds(j, n) == 0 <= j /\ j < n

\* lines 95-97: the size the three output arrays are allocated with
AllocatedSize(rd, w) == w

\* expand_interval, lines 61-64: the arrays after thread k has run; a write
\* to an index outside the array does not land in it.
ThreadWrite(arr, rd, k) ==
    LET hit(j) == {n \in Iterations(rd, k) : IndexOf(rd, k, n) = j}
        iter(j) == CHOOSE n \in hit(j) : TRUE
    IN [start |-> [j \in DOMAIN arr.start |->
                      IF hit(j) # {} THEN rd[k].start + iter(j) ELSE arr.start[j]],
        end |-> [j \in DOMAIN arr.end |->
                      IF hit(j) # {} THEN rd[k].start + iter(j) + 1 ELSE arr.end[j]],
        row_num |-> [j \in DOMAIN arr.row_num |->
                      IF hit(j) # {} THEN rd[k].row_num ELSE arr.row_num[j]]]

\* expand_interval, line 56: the arrays after the threads of reads 0..k have
\* run.  The threads write disjoint index ranges (end_index is the cumulative
\* sum of positive lengths), so the order they run in does not show.
RECURSIVE KernelWrite(_, _, _)
KernelWrite(arr, rd, k) ==
    IF k < 0 THEN arr ELSE ThreadWrite(KernelWrite(arr, rd, k - 1), rd, k)

\* line 108: expanded_coverage.merge(reads, on='row_num'): the entries whose
\* row_num is the row_num of a read, with that read's cluster
MergedEntries(arr, rd) ==
    {j \in DOMAIN arr.row_num : \E k \in DOMAIN rd : rd[k].row_num = arr.row_num[j]}

ClusterOfEntry(arr, rd, j) ==
    LET k == CHOOSE q \in DOMAIN rd : rd[q].row_num = arr.row_num[j]
    IN rd[k].cluster

\* line 111: groupby(['chrom','start','end','cluster']).count(); the count is
\* carried by the row_num column.  All rows come from one tabix query: one chrom.
GroupBy(arr, rd) ==
    LET m == MergedEntries(arr, rd)
        key(j) == <<arr.start[j], arr.end[j], ClusterOfEntry(arr, rd, j)>>
        keys == {key(j) : j \in m}
    IN {[start |-> g[1], end |-> g[2], cluster |-> g[3],
         row_num |-> Cardinality({j \in m : key(j) = g})] : g \in keys}

\* line 119
Coord(g, s, p) == g.start - s + p

\* The mask of line 121 with its upper comparison made inclusive.
InWindowInclusive(c, s, e, p) == c >= 0 /\ c <= (e - s + (2 * p))

\* line 121: the mask ind
InWindow(c, s, e, p) == c >= 0 /\ c < (e - s + (2 * p))

\* lines 118-123: the groups of one cluster that pass the mask
Kept(sc, cl, s, e, p) ==
    {g \in sc : g.cluster = cl /\ InWindow(Coord(g, s, p), s, e, p)}

\* line 124: x[i][coords] = values.  When several kept groups share a
\* coordinate the one assigned last stays; the order of the group rows is the
\* library's, so any of them may be last.
LastWriters(kept, s, p) ==
    LET cols == {Coord(g, s, p) : g \in kept}
    IN {f \in [cols -> kept] : \A c \in cols : Coord(f[c], s, p) = c}

\* ---------------------------------------------------------------- idle values
CovIdle ==
    /\ reads_orig = << >> /\ start = 0 /\ end = 0 /\ pad = 0
    /\ reads = << >> /\ clusters = << >> /\ window_size = 0
    /\ expanded_coverage = [start |-> << >>, end |-> << >>, row_num |-> << >>]
    /\ oob = FALSE /\ summed_coverage = {}
    /\ x = << >> /\ i = 0 /\ writes = {}

TabIdle == tabix_out = << >> /\ line_no = 0 /\ records = << >>

CntIdle == fragment_file = << >> /\ fragment_barcodes = << >> /\ barcode_counts = << >>

DnIdle ==
    /\ coverage = << >> /\ interval_size = 0 /\ dpad = 0
    /\ input_arr = << >> /\ pred = << >>

\* ------------------------------------------------- get_coverages: actions
InitCoverage ==
    /\ pc = "call"
    /\ reads_orig \in ReadFrames
    /\ start \in Starts
    /\ end \in {start + w : w \in Widths}
    /\ pad \in Pads
    /\ reads = << >> /\ clusters = << >> /\ window_size = 0
    /\ expanded_coverage = [start |-> << >>, end |-> << >>, row_num |-> << >>]
    /\ oob = FALSE /\ summed_coverage = {}
    /\ x = << >> /\ i = 0 /\ writes = {}
    /\ TabIdle /\ CntIdle /\ DnIdle

\* lines 82-97: copy and sort, list the clusters, allocate the kernel's arrays
Prepare ==
    /\ pc = "call"
    /\ reads' = SortByRowNum(reads_orig)
    /\ clusters' = UniqueClusters(reads')
    /\ window_size' = WindowSize(start, end, pad)
    /\ expanded_coverage' =
          [start |-> Zeros(AllocatedSize(reads', window_size')),
           end |-> Zeros(AllocatedSize(reads', window_size')),
           row_num |-> Zeros(AllocatedSize(reads', window_size'))]
    /\ pc' = "kernel"
    /\ UNCHANGED <<reads_orig, start, end, pad, oob,
                   summed_coverage, x, i, writes>>
    /\ UNCHANGED <<tabVars, cntVars, dnVars>>

\* lines 98-106 and 56-64: the kernel launch, one thread per read.  numba's
\* CUDA target checks no bounds: a write past the end of an output array is
\* undefined behaviour, which either corrupts memory outside the array
\* silently or aborts the launch with an illegal memory access.
ExpandInterval ==
    /\ pc = "kernel"
    /\ LET n == Cardinality(DOMAIN expanded_coverage.start)
           outside == {j \in AllIndices(reads) : ~InBounds(j, n)}
       IN \/ /\ expanded_coverage' =
                   KernelWrite(expanded_coverage, reads, Cardinality(DOMAIN reads) - 1)
             /\ oob' = (outside # {})
             /\ pc' = "merge"
          \/ /\ outside # {}
             /\ pc' = "fault"
             /\ UNCHANGED <<expanded_coverage, oob>>
    /\ UNCHANGED <<reads_orig, start, end, pad, reads, clusters, window_size,
                   summed_coverage, x, i, writes>>
    /\ UNCHANGED <<tabVars, cntVars, dnVars>>

\* lines 107-114: merge, group and count; allocate x
Aggregate ==
    /\ pc = "merge"
    /\ summed_coverage' = GroupBy(expanded_coverage, reads)
    /\ x' = [r \in DOMAIN clusters |-> Zeros(window_size)]
    /\ i' = 0
    /\ pc' = "fill"
    /\ UNCHANGED <<reads_orig, start, end, pad, reads, clusters, window_size,
                   expanded_coverage, oob, writes>>
    /\ UNCHANGED <<tabVars, cntVars, dnVars>>

\* lines 117-124: one iteration of the loop over the clusters
FillCluster ==
    /\ pc = "fill"
    /\ i \in DOMAIN clusters
    /\ LET kept == Kept(summed_coverage, clusters[i], start, end, pad)
       IN \E last \in LastWriters(kept, start, pad) :
            /\ x' = [x EXCEPT ![i] =
                       [c \in DOMAIN x[i] |->
                          IF c \in DOMAIN last THEN last[c].row_num ELSE x[i][c]]]
            /\ writes' = writes \cup
                  {[row |-> i, col |-> Coord(g, start, pad), cluster |-> g.cluster] :
                      g \in kept}
    /\ i' = i + 1
    /\ UNCHANGED <<pc, reads_orig, start, end, pad, reads, clusters, window_size,
                   expanded_coverage, oob, summed_coverage>>
    /\ UNCHANGED <<tabVars, cntVars, dnVars>>

\* line 126
ReturnCoverage ==
    /\ pc = "fill"
    /\ i \notin DOMAIN clusters
    /\ pc' = "done"
    /\ UNCHANGED covVars
    /\ UNCHANGED <<tabVars, cntVars, dnVars>>

NextCoverage ==
    \/ Prepare
    \/ ExpandInterval
    \/ Aggregate
    \/ FillCluster
    \/ ReturnCoverage

SpecCoverage == InitCoverage /\ [][NextCoverage]_vars

\* ------------------------------------------------ get_coverages: properties
\* The distinct cluster values of the argument, and the rank of one of them.
ArgClusters == {reads_orig[r][3] : r \in DOMAIN reads_orig}

\* Rows of the argument of cluster c whose half-open interval holds coordinate g.
Covering(c, g) ==
    {r \in DOMAIN reads_orig :
        /\ reads_orig[r][3] = c
        /\ reads_orig[r][1] <= g
        /\ g < reads_orig[r][2]}

KernelComplete == pc \in {"merge", "fill", "done"}

C2_ShapeAndWritesInWindow ==
    pc \in {"fill", "done"} =>
        /\ DOMAIN x = Range0(Cardinality(ArgClusters))
        /\ \A r \in DOMAIN x : DOMAIN x[r] = Range0(end - start + 2 * pad)
        /\ DOMAIN clusters = DOMAIN x
        /\ \A r \in DOMAIN clusters :
              clusters[r] \in ArgClusters /\ Rank(clusters[r], ArgClusters) = r
        /\ \A w \in writes :
              /\ w.row \in DOMAIN x
              /\ w.col \in Range0(end - start + 2 * pad)
              /\ Rank(w.cluster, ArgClusters) = w.row

\* C2's case: a call with two clusters has returned, having written counts
\* and having dropped a position beyond the padded window.
C2_Witness ==
    /\ pc = "done"
    /\ Cardinality(ArgClusters) = 2
    /\ writes # {}
    /\ \E g \in summed_coverage : Coord(g, start, pad) >= end - start + 2 * pad

\* C5: once the kernel is complete, entry end_index[k] - len_k + n of the
\* output holds start_k + n, start_k + n + 1 and row_num_k, for every read k
\* and n in 0..len_k-1, and the entries are exactly 0..sum(len)-1.
C5_KernelExpandsEveryRead ==
    KernelComplete =>
        /\ \A k \in DOMAIN reads : \A n \in Range0(reads[k].len) :
              LET j == CumSum(reads, k) - reads[k].len + n
              IN /\ j \in DOMAIN expanded_coverage.start
                 /\ expanded_coverage.start[j] = reads[k].start + n
                 /\ expanded_coverage.end[j] = reads[k].start + n + 1
                 /\ expanded_coverage.row_num[j] = reads[k].row_num
        /\ AllIndices(reads) = Range0(CumSum(reads, Cardinality(DOMAIN reads) - 1))

\* C6: the kernel writes only indices below the allocated length
\* end-start+2*pad, and no entry that is merged and counted is one the kernel
\* left at its initial zero.
C6_KernelWritesStayAllocated ==
    /\ ~oob
    /\ pc # "fault"
    /\ KernelComplete =>
          \A j \in MergedEntries(expanded_coverage, reads) :
              j \in AllIndices(reads)

\* ================================================================ tabix_query
\* Input bounds: tabix writes at most MaxLines lines holding at most MaxChars
\* characters together (line terminators not counted).
MaxLines == 2
MaxChars == 5

TAB == "\t"
NL == "\n"

\* Characters of a line: a field character, the separator and a blank.
LineChars == {"a", TAB, " "}

\* What str.strip() removes.
Whitespace == {" ", TAB, NL}

RECURSIVE SeqsUpTo(_, _)
SeqsUpTo(S, n) ==
    IF n = 0 THEN {<< >>}
    ELSE LET shorter == SeqsUpTo(S, n - 1)
         IN shorter \cup {Append(s, c) : s \in {u \in shorter : Len(u) = n - 1}, c \in S}

\* The outputs of at most n lines and at most c characters.
RECURSIVE Outputs(_, _)
Outputs(n, c) ==
    IF n = 0 THEN {<< >>}
    ELSE {<< >>} \cup
         UNION {{<<first>> \o rest : rest \in Outputs(n - 1, c - Len(first))} :
                   first \in SeqsUpTo(LineChars, c)}

\* line 47: iterating process.stdout yields each line with its terminator
RawLine(content) == Append(content, NL)

\* str.strip(): drop leading, then trailing whitespace
RECURSIVE LStrip(_)
LStrip(s) ==
    IF s # << >> /\ Head(s) \in Whitespace THEN LStrip(Tail(s)) ELSE s

RECURSIVE RStrip(_)
RStrip(s) ==
    IF s # << >> /\ s[Len(s)] \in Whitespace
    THEN RStrip(SubSeq(s, 1, Len(s) - 1))
    ELSE s

Strip(s) == RStrip(LStrip(s))

\* str.split(sep): the fields between separators; the empty string gives ['']
RECURSIVE Split(_, _)
Split(s, sep) ==
    IF \A n \in 1 .. Len(s) : s[n] # sep
    THEN <<s>>
    ELSE LET n == CHOOSE m \in 1 .. Len(s) :
                      s[m] = sep /\ \A q \in 1 .. (m - 1) : s[q] # sep
         IN <<SubSeq(s, 1, n - 1)>> \o Split(SubSeq(s, n + 1, Len(s)), sep)

\* Line 48 with only the line terminator removed before the split.
ParseLineKeepBlanks(raw) == Split(SubSeq(raw, 1, Len(raw) - 1), TAB)

\* line 48: line.decode('utf-8').strip().split('\t')
ParseLine(raw) == Split(Strip(raw), TAB)

InitTabix ==
    /\ pc = "call"
    /\ tabix_out \in Outputs(MaxLines, MaxChars)
    /\ line_no = 0
    /\ records = << >>
    /\ CovIdle /\ CntIdle /\ DnIdle

\* lines 44-46: start the process, records = []
OpenTabix ==
    /\ pc = "call"
    /\ records' = << >>
    /\ line_no' = 0
    /\ pc' = "reading"
    /\ UNCHANGED <<tabix_out, covVars, cntVars, dnVars>>

\* lines 47-49: one iteration of the loop over process.stdout
ReadLine ==
    /\ pc = "reading"
    /\ line_no < Len(tabix_out)
    /\ records' = Append(records, ParseLine(RawLine(tabix_out[line_no + 1])))
    /\ line_no' = line_no + 1
    /\ UNCHANGED <<pc, tabix_out, covVars, cntVars, dnVars>>

\* line 50: end of the output
ReturnRecords ==
    /\ pc = "reading"
    /\ line_no = Len(tabix_out)
    /\ pc' = "returned"
    /\ UNCHANGED <<tabVars, covVars, cntVars, dnVars>>

NextTabix ==
    \/ OpenTabix
    \/ ReadLine
    \/ ReturnRecords

SpecTabix == InitTabix /\ [][NextTabix]_vars

\* ------------------------------------------------- tabix_query: properties
\* The fields joined by the separator.
RECURSIVE JoinTab(_)
JoinTab(fields) ==
    IF Len(fields) = 1 THEN fields[1]
    ELSE fields[1] \o <<TAB>> \o JoinTab(Tail(fields))

NoTabIn(field) == \A n \in 1 .. Len(field) : field[n] # TAB

AllBlank(s) == \A n \in 1 .. Len(s) : s[n] \in Whitespace

\* body is line without its leading and trailing whitespace.
IsStripped(body, line) ==
    /\ body # << >> => (body[1] \notin Whitespace /\ body[Len(body)] \notin Whitespace)
    /\ \E a \in 0 .. Len(line) : \E b \in 0 .. (Len(line) - a) :
          /\ AllBlank(SubSeq(line, 1, a))
          /\ AllBlank(SubSeq(line, Len(line) - b + 1, Len(line)))
          /\ body = SubSeq(line, a + 1, Len(line) - b)

\* rec is the list of the tab-separated fields of body.
IsFieldList(rec, body) ==
    /\ Len(rec) >= 1
    /\ \A n \in 1 .. Len(rec) : NoTabIn(rec[n])
    /\ JoinTab(rec) = body

\* C4 as stated: one record per line written, in order, each the list of the
\* line's tab-separated fields.
C4_RecordsAreLineFields ==
    pc = "returned" =>
        /\ Len(records) = Len(tabix_out)
        /\ \A n \in 1 .. Len(tabix_out) : IsFieldList(records[n], tabix_out[n])

\* C4 amended: one record per line written, in order, each the list of the
\* tab-separated fields of the line with its leading and trailing whitespace
\* (blanks, tabs, the line terminator) removed.
C4_RecordsAreStrippedLineFields ==
    pc = "returned" =>
        /\ Len(records) = Len(tabix_out)
        /\ \A n \in 1 .. Len(tabix_out) :
              \E body \in SeqsUpTo(LineChars, Len(tabix_out[n])) :
                  /\ IsStripped(body, tabix_out[n])
                  /\ IsFieldList(records[n], body)

\* C4's case: two lines were read, the first with two non-empty fields, the
\* second ending in an empty field, which the record has lost.
C4_Witness ==
    /\ pc = "returned"
    /\ tabix_out = << <<"a", TAB, "a">>, <<"a", TAB>> >>
    /\ records = << << <<"a">>, <<"a">> >>, << <<"a">> >> >>

\* ============================================================ count_fragments
\* Input bound: the fragment file has at most MaxFileLines lines.
MaxFileLines == 3

\* The texts of column 4: two cell barcodes, an empty field and the text NA.
\* Cell barcodes are nucleotide strings with a suffix, never numeric text.
BarcodeTexts == {"AAAC-1", "AAAG-1", "", "NA"}

\* A line is the tuple of its tab-separated fields; a blank line has none.
BlankLine == << >>

FragmentLine(barcode) == <<"chr1", "10", "20", barcode, "1">>

FileLines == {BlankLine} \cup {FragmentLine(b) : b \in BarcodeTexts}

\* pandas' missing value.
NaN == "<NaN>"

\* read_csv's default na_values among the texts above (keep_default_na=True).
DefaultNaValues == {"", "NA"}

\* line 27: read_csv(sep='\t', header=None, usecols=[3]) skips blank lines
\* (skip_blank_lines=True) and reads the default NA texts as missing.
IsDataLine(line) == line # BlankLine

ParseField(text) == IF text \in DefaultNaValues THEN NaN ELSE text

ReadCsvColumn(file) ==
    LET data == SelectSeq(file, IsDataLine)
    IN [n \in 1 .. Len(data) |-> ParseField(data[n][4])]

\* Occurrences of value v in column col.
RECURSIVE CountOf(_, _)
CountOf(v, col) ==
    IF col = << >> THEN 0
    ELSE (IF Head(col) = v THEN 1 ELSE 0) + CountOf(v, Tail(col))

\* The distinct values of col in order of first appearance.
RECURSIVE Distinct(_)
Distinct(col) ==
    IF col = << >> THEN << >>
    ELSE LET before == Distinct(SubSeq(col, 1, Len(col) - 1))
             last == col[Len(col)]
         IN IF \E n \in 1 .. Len(before) : before[n] = last
            THEN before
            ELSE Append(before, last)

\* Stable insertion of row into rows, kept in descending order of fragments.
RECURSIVE InsertByCount(_, _)
InsertByCount(row, rows) ==
    IF rows = << >> THEN <<row>>
    ELSE IF Head(rows).fragments < row.fragments
         THEN <<row>> \o rows
         ELSE <<Head(rows)>> \o InsertByCount(row, Tail(rows))

RECURSIVE SortByCount(_)
SortByCount(rows) ==
    IF rows = << >> THEN << >>
    ELSE InsertByCount(rows[Len(rows)], SortByCount(SubSeq(rows, 1, Len(rows) - 1)))

IsPresent(v) == v # NaN

IsAny(v) == TRUE

\* Lines 28-29 with value_counts(dropna=False).
ValueCountsKeepNa(col) ==
    LET values == SelectSeq(Distinct(col), IsAny)
    IN SortByCount([n \in 1 .. Len(values) |->
                       [cell |-> values[n], fragments |-> CountOf(values[n], col)]])

\* lines 28-29: value_counts() drops missing values (dropna=True), counts each
\* remaining value and sorts by descending count; reset_index and the renaming
\* give the columns cell and fragments.
ValueCounts(col) ==
    LET values == SelectSeq(Distinct(col), IsPresent)
    IN SortByCount([n \in 1 .. Len(values) |->
                       [cell |-> values[n], fragments |-> CountOf(values[n], col)]])

InitCount ==
    /\ pc = "call"
    /\ fragment_file \in SeqsUpTo(FileLines, MaxFileLines)
    /\ fragment_barcodes = << >>
    /\ barcode_counts = << >>
    /\ CovIdle /\ TabIdle /\ DnIdle

\* line 27; a file without any data line makes read_csv raise EmptyDataError
ReadCsv ==
    /\ pc = "call"
    /\ IF SelectSeq(fragment_file, IsDataLine) = << >>
       THEN pc' = "error" /\ UNCHANGED fragment_barcodes
       ELSE pc' = "read" /\ fragment_barcodes' = ReadCsvColumn(fragment_file)
    /\ UNCHANGED <<fragment_file, barcode_counts, covVars, tabVars, dnVars>>

\* lines 28-29
CountValues ==
    /\ pc = "read"
    /\ barcode_counts' = ValueCounts(fragment_barcodes)
    /\ pc' = "counted"
    /\ UNCHANGED <<fragment_file, fragment_barcodes, covVars, tabVars, dnVars>>

\* line 30
ReturnCounts ==
    /\ pc = "counted"
    /\ pc' = "returned"
    /\ UNCHANGED <<cntVars, covVars, tabVars, dnVars>>

NextCount ==
    \/ ReadCsv
    \/ CountValues
    \/ ReturnCounts

SpecCount == InitCount /\ [][NextCount]_vars

\* --------------------------------------------- count_fragments: properties
\* The lines of the file whose column 4 holds the text b.
LinesCarrying(b) ==
    {n \in 1 .. Len(fragment_file) :
        fragment_file[n] # BlankLine /\ fragment_file[n][4] = b}

RECURSIVE SumFragments(_)
SumFragments(rows) ==
    IF rows = << >> THEN 0 ELSE Head(rows).fragments + SumFragments(Tail(rows))

\* Exactly one row for each text of bs that occurs in column 4, with the
\* number of lines carrying it, and no other row.
OneRowPerBarcode(bs) ==
    /\ \A b \in bs :
          LinesCarrying(b) # {} =>
              \E n \in 1 .. Len(barcode_counts) :
                  /\ barcode_counts[n].cell = b
                  /\ barcode_counts[n].fragments = Cardinality(LinesCarrying(b))
    /\ \A n \in 1 .. Len(barcode_counts) :
          /\ barcode_counts[n].cell \in bs
          /\ LinesCarrying(barcode_counts[n].cell) # {}
          /\ \A m \in 1 .. Len(barcode_counts) :
                barcode_counts[m].cell = barcode_counts[n].cell => m = n

MaxClustersD == 2
MaxWidth == 4
MaxCount == 1
NumHeads == 2

NumRows(a) == Cardinality(DOMAIN a)

\* shape[1] of a 2-d array; NumCols of an array without rows is not used.
NumCols(a) == Cardinality(DOMAIN a[0])

\* range(a, b, step) for step > 0, as a 0-based array
RangeList(a, b, step) ==
    LET cnt == IF b <= a THEN 0 ELSE (b - a + step - 1) \div step
    IN [k \in Range0(cnt) |-> a + k * step]

\* line 138
PaddedIntervalSize(isz, p) == isz + 2 * p

\* line 139: int((coverage.shape[1] - 2*pad) / interval_size)
NumIntervals(w, isz, p) == (w - 2 * p) \div isz

\* lines 140-143
IntervalStarts(w, isz, p) ==
    IF NumIntervals(w, isz, p) = 1
    THEN [k \in Range0(1) |-> 0]
    ELSE RangeList(0, w - PaddedIntervalSize(isz, p), isz + p)

\* line 146: np.stack of the slices coverage[i, start:start+padded] of cluster r
StackCluster(cov, r, starts, padded) ==
    [k \in DOMAIN starts |-> [q \in Range0(padded) |-> cov[r][starts[k] + q]]]

\* line 147: numpy broadcasts a (m, padded) value into the (n, padded) target
\* when m = n or m = 1 and raises ValueError otherwise.
Broadcastable(m, n) == m = n \/ m = 1

\* lines 144-148: the reshaped array; row r*n + k is row k of cluster r's
\* stack, or its only row when the stack is broadcast
ReshapeWithPadding(cov, w, isz, p) ==
    LET n == NumIntervals(w, isz, p)
        padded == PaddedIntervalSize(isz, p)
        starts == IntervalStarts(w, isz, p)
        m == NumRows(starts)
    IN [row \in Range0(NumRows(cov) * n) |->
           [q \in Range0(padded) |->
               StackCluster(cov, row \div n, starts, padded)
                   [IF m = 1 THEN 0 ELSE row % n][q]]]

\* line 157 for a network that returns its input on every output head
ModelHeads(inp) == [h \in Range0(NumHeads) |-> inp]

\* line 158: np.stack(heads, axis=-1)
StackHeads(heads) ==
    [r \in DOMAIN heads[0] |-> [q \in DOMAIN heads[0][r] |->
        [h \in DOMAIN heads |-> heads[h][r][q]]]]

\* lines 159-160: pred[:, range(pad, shape[1] - pad), :]
CropCenter(pr, width, p) ==
    LET center == RangeList(p, width - p, 1)
    IN [r \in DOMAIN pr |-> [q \in DOMAIN center |-> pr[r][center[q]]]]

\* line 161: row-major reshape of the (rows, cols, heads) array to
\* (newRows, newCols, heads)
ReshapeRows(pr, cols, newRows, newCols) ==
    [r \in Range0(newRows) |->
        [c \in Range0(newCols) |->
            pr[(r * newCols + c) \div cols][(r * newCols + c) % cols]]]

\* Coverage arrays of c clusters and w positions.
Coverages(c, w) == [Range0(c) -> [Range0(w) -> 0 .. MaxCount]]

\* The calls of the claim: coverage of shape (C, W) with W - 2*pad a positive
\* multiple of interval_size.
InitDenoise ==
    /\ pc = "call"
    /\ \E c \in 1 .. MaxClustersD : \E w \in 1 .. MaxWidth : coverage \in Coverages(c, w)
    /\ interval_size \in 1 .. MaxWidth
    /\ dpad \in 0 .. MaxWidth
    /\ NumCols(coverage) - 2 * dpad > 0
    /\ (NumCols(coverage) - 2 * dpad) % interval_size = 0
    /\ input_arr = << >>
    /\ pred = << >>
    /\ CovIdle /\ TabIdle /\ CntIdle

\* line 152: reshape_with_padding; the assignment of line 147 raises when the
\* stack of a cluster cannot be broadcast
Reshape ==
    /\ pc = "call"
    /\ LET w == NumCols(coverage)
           n == NumIntervals(w, interval_size, dpad)
           m == NumRows(IntervalStarts(w, interval_size, dpad))
       IN IF Broadcastable(m, n)
          THEN /\ input_arr' = ReshapeWithPadding(coverage, w, interval_size, dpad)
               /\ pc' = "reshaped"
          ELSE /\ pc' = "error"
               /\ UNCHANGED input_arr
    /\ UNCHANGED <<coverage, interval_size, dpad, pred, covVars, tabVars, cntVars>>

\* lines 153-158: run the network and stack its outputs
Infer ==
    /\ pc = "reshaped"
    /\ pred' = StackHeads(ModelHeads(input_arr))
    /\ pc' = "inferred"
    /\ UNCHANGED <<coverage, interval_size, dpad, input_arr, covVars, tabVars, cntVars>>

\* lines 159-160
Crop ==
    /\ pc = "inferred"
    /\ pred' = CropCenter(pred, PaddedIntervalSize(interval_size, dpad), dpad)
    /\ pc' = "cropped"
    /\ UNCHANGED <<coverage, interval_size, dpad, input_arr, covVars, tabVars, cntVars>>

\* lines 161-162
ReshapeBack ==
    /\ pc = "cropped"
    /\ pred' = ReshapeRows(pred, interval_size,
                           NumRows(coverage), NumCols(coverage) - 2 * dpad)
    /\ pc' = "done"
    /\ UNCHANGED <<coverage, interval_size, dpad, input_arr, covVars, tabVars, cntVars>>

NextDenoise ==
    \/ Reshape
    \/ Infer
    \/ Crop
    \/ ReshapeBack

SpecDenoise == InitDenoise /\ [][NextDenoise]_vars

\* ------------------------------------------- atacworks_denoise: properties
\* C7: with a network that returns its input on every head, the result has
\* shape (C, W - 2*pad, heads) and result[c, q, :] = coverage[c, pad + q].
C7_DenoiseRemovesExactlyThePadding ==
    pc = "done" =>
        /\ DOMAIN pred = DOMAIN coverage
        /\ \A c \in DOMAIN coverage :
              /\ DOMAIN pred[c] = Range0(NumCols(coverage) - 2 * dpad)
              /\ \A q \in Range0(NumCols(coverage) - 2 * dpad) :
                    /\ DOMAIN pred[c][q] = Range0(NumHeads)
                    /\ \A h \in Range0(NumHeads) :
                          pred[c][q][h] = coverage[c][dpad + q]

====
